---- MODULE Spec2Model ----
(***************************************************************************)
(* Model of mp_remote.py: a command-line front end that drives the         *)
(* external tool `mpremote` to upload a local directory tree to a board,    *)
(* list the board's files, delete them, reset the board or open a REPL.     *)
(*                                                                          *)
(* Strings are sequences of one-character strings, so that the string       *)
(* operations of the program (Path.suffix, as_posix, rstrip, split,         *)
(* sorted) are computed as the program computes them.  A local path is the  *)
(* sequence of its components below the upload root.                        *)
(***************************************************************************)
EXTENDS Integers, Sequences, FiniteSets, TLC

(***************************************************************************)
(* Bounds of the model.                                                     *)
(***************************************************************************)
MaxTime == 4
MaxVersion == 2

(***************************************************************************)
(* Program constants.                                                       *)
(***************************************************************************)
ESP_ROOT == <<":","/">>

IGNORED_SUFFIXES ==
    {<<".","t","x","t">>,
     <<".","m","d">>,
     <<".","p","y","c">>,
     <<".","l","o","g">>,
     <<".","b","a","k">>,
     <<".","b","a","t">>,
     <<".","s","h">>,
     <<".","i","n","i">>,
     <<".","c","f","g">>,
     <<".","c","o","n","f","i","g">>,
     <<".","D","S","_","S","t","o","r","e">>,
     <<".","g","i","t">>,
     <<".","g","i","t","i","g","n","o","r","e">>,
     <<".","g","i","t","a","t","t","r","i","b","u","t","e","s">>,
     <<".","p","d","f">>,
     <<".","d","o","c","x">>,
     <<".","x","l","s","x">>,
     <<".","p","p","t","x">>,
     <<".","z","i","p">>,
     <<".","t","a","r">>,
     <<".","t","a","r",".","g","z">>,
     <<".","r","a","r">>}

(***************************************************************************)
(* The local files the model draws directory trees from.                    *)
(***************************************************************************)
A_PY == <<"a",".","p","y">>
OLD_MD == <<"o","l","d",".","m","d">>
B_PY == <<"b",".","p","y">>
C_PY == <<"c",".","p","y">>
T_TAR_GZ == <<"t",".","t","a","r",".","g","z">>
SUB == <<"s","u","b">>
X_DIR == <<"x">>
Y_DIR == <<"y">>

LocalUniverse ==
    {<<A_PY>>, <<OLD_MD>>, <<SUB, B_PY>>, <<X_DIR, Y_DIR, C_PY>>, <<T_TAR_GZ>>}

InitMtimes == {1, 2}

(***************************************************************************)
(* String helpers.                                                          *)
(***************************************************************************)
CharCode ==
    (" " :> 32) @@ ("." :> 46) @@ ("/" :> 47) @@ ("0" :> 48) @@ (":" :> 58) @@
    ("D" :> 68) @@ ("S" :> 83) @@ ("_" :> 95) @@ ("a" :> 97) @@ ("b" :> 98) @@
    ("c" :> 99) @@ ("d" :> 100) @@ ("e" :> 101) @@ ("f" :> 102) @@
    ("g" :> 103) @@ ("h" :> 104) @@ ("i" :> 105) @@ ("k" :> 107) @@
    ("l" :> 108) @@ ("m" :> 109) @@ ("n" :> 110) @@ ("o" :> 111) @@
    ("p" :> 112) @@ ("r" :> 114) @@ ("s" :> 115) @@ ("t" :> 116) @@
    ("u" :> 117) @@ ("x" :> 120) @@ ("y" :> 121) @@ ("z" :> 122)

Max(S) == CHOOSE m \in S : \A n \in S : n <= m

\* str.rstrip(c)
RECURSIVE rstrip(_, _)
rstrip(s, c) ==
    IF s # <<>> /\ s[Len(s)] = c THEN rstrip(SubSeq(s, 1, Len(s) - 1), c)
    ELSE s

\* str.endswith(t)
endswith(s, t) ==
    /\ Len(t) <= Len(s)
    /\ SubSeq(s, Len(s) - Len(t) + 1, Len(s)) = t

\* str < str, by code point
RECURSIVE StrLess(_, _)
StrLess(s, t) ==
    IF t = <<>> THEN FALSE
    ELSE IF s = <<>> THEN TRUE
    ELSE IF s[1] # t[1] THEN CharCode[s[1]] < CharCode[t[1]]
    ELSE StrLess(Tail(s), Tail(t))

\* sorted(set of str)
RECURSIVE sorted(_)
sorted(S) ==
    IF S = {} THEN <<>>
    ELSE LET m == CHOOSE a \in S : \A b \in S \ {a} : StrLess(a, b)
         IN <<m>> \o sorted(S \ {m})

\* PurePath.suffix of a file name
suffix(name) ==
    LET dots == {i \in 1..Len(name) : name[i] = "."}
    IN IF dots = {} THEN <<>>
       ELSE LET i == Max(dots)
            IN IF 1 < i /\ i < Len(name) THEN SubSeq(name, i, Len(name))
               ELSE <<>>

\* PurePath.parent of a relative path
parent(p) == SubSeq(p, 1, Len(p) - 1)

RECURSIVE JoinPosix(_)
JoinPosix(p) ==
    IF p = <<>> THEN <<>>
    ELSE IF Len(p) = 1 THEN p[1]
    ELSE p[1] \o <<"/">> \o JoinPosix(Tail(p))

\* PurePath.as_posix of a relative path; the empty path is "."
as_posix(p) == IF p = <<>> THEN <<".">> ELSE JoinPosix(p)

\* f"{ESP_ROOT.rstrip('/')}/{rel}"
esp_path(rel) == rstrip(ESP_ROOT, "/") \o <<"/">> \o rel

(***************************************************************************)
(* The board, as far as the external tool shows it: a tree of directories   *)
(* and files.  A remote path string ":/a/b" names the component path        *)
(* <<a, b>>; empty and "." components name the directory itself.            *)
(***************************************************************************)
RECURSIVE SplitOn(_, _, _)
SplitOn(s, c, cur) ==
    IF s = <<>> THEN <<cur>>
    ELSE IF s[1] = c THEN <<cur>> \o SplitOn(Tail(s), c, <<>>)
    ELSE SplitOn(Tail(s), c, Append(cur, s[1]))

DevResolve(s) ==
    LET body == IF s # <<>> /\ s[1] = ":" THEN Tail(s) ELSE s
    IN SelectSeq(SplitOn(body, "/", <<>>), LAMBDA c : c # <<>> /\ c # <<".">>)

DevCanMkdir(dirs, files, s) ==
    LET d == DevResolve(s)
    IN /\ d # <<>>
       /\ d \notin dirs
       /\ d \notin files
       /\ parent(d) \in dirs

DevCanCopy(dirs, files, s) ==
    LET d == DevResolve(s)
    IN /\ d # <<>>
       /\ d \notin dirs
       /\ parent(d) \in dirs

DevCanList(dirs, s) == DevResolve(s) \in dirs

VARIABLES
    localFiles,        \* relative paths of the regular files under the root
    mtime,             \* st_mtime of each local file
    version,           \* content version of each local file
    now,               \* time.time()
    markerFile,        \* last_upload_time.txt: <<>> if absent, else <<t>>
    devDirs,           \* directories on the board
    devFiles,          \* files on the board
    copied,            \* content version last copied to the board, per file
    pc,                \* position of the process
    command,           \* args.command
    force,             \* args.force_upload
    path_is_dir,       \* Path(args.path).resolve().is_dir()
    exitStatus,        \* exit status of the process, once pc = "exited"
    last_upload_time,  \* upload_path: last_upload_time
    files_to_upload,   \* upload_path: files_to_upload
    folders_left,      \* upload_path: rest of sorted(folders_to_create)
    toCopy,            \* upload_path: rest of files_to_upload
    markerBefore,      \* markerFile when the process started
    log,               \* the mpremote invocations of the process, in order
    stack,             \* list_all_files: base_path of the pending calls
    output             \* list_all_files: the lines printed

vars == <<localFiles, mtime, version, now, markerFile, devDirs, devFiles,
          copied, pc, command, force, path_is_dir, exitStatus,
          last_upload_time, files_to_upload, folders_left, toCopy,
          markerBefore, log, stack, output>>

localVars == <<localFiles, mtime, version>>
devVars == <<devDirs, devFiles, copied>>
uploadVars == <<last_upload_time, files_to_upload, folders_left, toCopy>>
listVars == <<stack, output>>

Commands == {"delete_all", "upload_path", "soft_reset", "terminal", "list_files"}


(***************************************************************************)
(* Shared invocation policy.                                                *)
(***************************************************************************)
\* run_mpremote without the `sys.exit(1)`
run_mpremote_never_exits(ok, exit_on_error) == FALSE

\* run_mpremote without the `if exit_on_error:` test
run_mpremote_always_exits(ok, exit_on_error) == ~ok

\* run_mpremote: a failed command ends the process (sys.exit(1)) unless the
\* caller passed exit_on_error=False
run_mpremote_exits(ok, exit_on_error) == ~ok /\ exit_on_error

\* list_all_files: `except SystemExit: return`
list_catches_SystemExit == TRUE

Invocation(op, arg, src, ok) == [op |-> op, arg |-> arg, src |-> src, ok |-> ok]

Exit(status) ==
    /\ pc' = "exited"
    /\ exitStatus' = status

(***************************************************************************)
(* The upload marker.                                                       *)
(***************************************************************************)
TIMESTAMP_FILE_NAME ==
    <<"l","a","s","t","_","u","p","l","o","a","d","_","t","i","m","e",
      ".","t","x","t">>

get_last_upload_time == IF markerFile = <<>> THEN 0 ELSE markerFile[1]

\* update_upload_time writing back the value that was read
update_upload_time_stale == <<last_upload_time>>

\* the text written to the marker file
update_upload_time == <<now>>

(***************************************************************************)
(* upload_path, step 1: the scan.                                           *)
(***************************************************************************)
\* the regular files path.rglob('*') finds: the tree and the marker file
RootFiles ==
    localFiles \cup (IF markerFile = <<>> THEN {} ELSE {<<TIMESTAMP_FILE_NAME>>})

IsCandidate(f, lut, frc) ==
    /\ suffix(f[Len(f)]) \notin IGNORED_SUFFIXES
    /\ (frc \/ mtime[f] > lut)

ScanFiles(lut, frc) == {f \in RootFiles : IsCandidate(f, lut, frc)}

\* upload_path without the `if not files_to_upload: return`
NothingToDo_never(files) == FALSE

\* `if not files_to_upload:`
NothingToDo(files) == files = {}

\* step 2: `if relative_folder:` is a test of the string as_posix() returns
folders_to_create(files) ==
    {as_posix(parent(f)) : f \in {g \in files : as_posix(parent(g)) # <<>>}}

UploadScan ==
    /\ pc = "upload_path"
    /\ IF ~path_is_dir
       THEN /\ Exit(1)
            /\ UNCHANGED uploadVars
       ELSE LET lut == get_last_upload_time
                files == ScanFiles(lut, force)
                folders == sorted(folders_to_create(files))
            IN /\ last_upload_time' = lut
               /\ files_to_upload' = files
               /\ IF NothingToDo(files)
                  THEN /\ Exit(0)
                       /\ UNCHANGED <<folders_left, toCopy>>
                  ELSE /\ folders_left' = folders
                       /\ toCopy' = files
                       /\ pc' = IF folders # <<>> THEN "upload_mkdir"
                                ELSE IF files # {} THEN "upload_cp"
                                ELSE "upload_marker"
                       /\ UNCHANGED exitStatus
    /\ UNCHANGED <<localVars, now, markerFile, devVars, command, force,
                   path_is_dir, markerBefore, log, listVars>>

\* step 2: one turn of `for folder in sorted(folders_to_create)`
UploadMkdir ==
    /\ pc = "upload_mkdir"
    /\ folders_left # <<>>
    /\ LET esp_folder == esp_path(Head(folders_left))
       IN \E ok \in BOOLEAN :
            /\ ok => DevCanMkdir(devDirs, devFiles, esp_folder)
            /\ log' = Append(log, Invocation("mkdir", esp_folder, <<>>, ok))
            /\ devDirs' = IF ok THEN devDirs \cup {DevResolve(esp_folder)}
                          ELSE devDirs
            /\ IF run_mpremote_exits(ok, FALSE)
               THEN /\ Exit(1)
                    /\ UNCHANGED folders_left
               ELSE /\ folders_left' = Tail(folders_left)
                    /\ pc' = IF Tail(folders_left) # <<>> THEN "upload_mkdir"
                             ELSE "upload_cp"
                    /\ UNCHANGED exitStatus
    /\ UNCHANGED <<localVars, now, markerFile, devFiles, copied, command,
                   force, path_is_dir, last_upload_time, files_to_upload,
                   toCopy, markerBefore, listVars>>

\* step 3: one turn of `for file in files_to_upload`; the order of the list
\* is the order rglob found the files in, which is any order
UploadCp ==
    /\ pc = "upload_cp"
    /\ \E file \in toCopy :
         LET relative_path == as_posix(file)
             esp_target == esp_path(relative_path)
         IN \E ok \in BOOLEAN :
              /\ ok => DevCanCopy(devDirs, devFiles, esp_target)
              /\ log' = Append(log, Invocation("cp", esp_target, file, ok))
              /\ devFiles' = IF ok THEN devFiles \cup {DevResolve(esp_target)}
                             ELSE devFiles
              /\ copied' = IF ok THEN [copied EXCEPT ![file] = version[file]]
                           ELSE copied
              /\ IF run_mpremote_exits(ok, TRUE)
                 THEN /\ Exit(1)
                      /\ UNCHANGED toCopy
                 ELSE /\ toCopy' = toCopy \ {file}
                      /\ pc' = IF toCopy \ {file} # {} THEN "upload_cp"
                               ELSE "upload_marker"
                      /\ UNCHANGED exitStatus
    /\ UNCHANGED <<localVars, now, markerFile, devDirs, command, force,
                   path_is_dir, last_upload_time, files_to_upload,
                   folders_left, markerBefore, listVars>>

\* step 4: the marker is rewritten with the clock reading; a later reading
\* of the clock is later than this one
UploadMarker ==
    /\ pc = "upload_marker"
    /\ now < MaxTime
    /\ markerFile' = update_upload_time
    /\ now' = now + 1
    /\ Exit(0)
    /\ UNCHANGED <<localVars, devVars, command, force, path_is_dir,
                   uploadVars, markerBefore, log, listVars>>

(***************************************************************************)
(* delete_all_files, soft_reset, terminal.                                  *)
(***************************************************************************)
DeleteAll ==
    /\ pc = "delete_all"
    /\ \E ok \in BOOLEAN :
         /\ log' = Append(log, Invocation("rm", ESP_ROOT, <<>>, ok))
         /\ devDirs' = IF ok THEN {<<>>} ELSE devDirs
         /\ devFiles' = IF ok THEN {} ELSE devFiles
         /\ Exit(IF run_mpremote_exits(ok, TRUE) THEN 1 ELSE 0)
    /\ UNCHANGED <<localVars, now, markerFile, copied, command, force,
                   path_is_dir, uploadVars, markerBefore, listVars>>

SoftReset ==
    /\ pc = "soft_reset"
    /\ \E ok \in BOOLEAN :
         /\ log' = Append(log, Invocation("reset", <<>>, <<>>, ok))
         /\ Exit(IF run_mpremote_exits(ok, TRUE) THEN 1 ELSE 0)
    /\ UNCHANGED <<localVars, now, markerFile, devVars, command, force,
                   path_is_dir, uploadVars, markerBefore, listVars>>

Terminal ==
    /\ pc = "terminal"
    /\ \E ok \in BOOLEAN :
         /\ log' = Append(log, Invocation("repl", <<>>, <<>>, ok))
         /\ Exit(IF run_mpremote_exits(ok, TRUE) THEN 1 ELSE 0)
    /\ UNCHANGED <<localVars, now, markerFile, devVars, command, force,
                   path_is_dir, uploadVars, markerBefore, listVars>>


(***************************************************************************)
(* list_all_files.                                                          *)
(***************************************************************************)
\* str.split(): the whitespace-delimited tokens
split(s) == SelectSeq(SplitOn(s, " ", <<>>), LAMBDA t : t # <<>>)

Spaces(n) == [i \in 1..n |-> " "]

Perms(S) ==
    {s \in [1..Cardinality(S) -> S] :
        \A i, j \in 1..Cardinality(S) : i # j => s[i] # s[j]}

\* the entries of directory d of the board
DevChildren(d) ==
    {[name |-> q[Len(q)], isDir |-> TRUE] :
        q \in {r \in devDirs : r # <<>> /\ parent(r) = d}}
    \cup
    {[name |-> q[Len(q)], isDir |-> FALSE] :
        q \in {r \in devFiles : parent(r) = d}}

\* one line of `mpremote fs ls`: size, name, and "/" after a directory
EntryLine(e) ==
    <<" ","0"," ">> \o e.name \o (IF e.isDir THEN <<"/">> ELSE <<>>)

\* the lines of `mpremote fs ls base_path`, entries in the order `order`
LsLines(base_path, order) ==
    <<(<<"l","s"," ">> \o base_path)>> \o
    [i \in 1..Len(order) |-> EntryLine(order[i])]

\* `parts[-1]` of the entry lines that have tokens
EntryNames(entries) ==
    LET tokens == [i \in 1..Len(entries) |-> split(entries[i])]
        parts == SelectSeq(tokens, LAMBDA t : t # <<>>)
    IN [i \in 1..Len(parts) |-> parts[i][Len(parts[i])]]

ParseSubdirs(entries) ==
    LET ds == SelectSeq(EntryNames(entries), LAMBDA n : endswith(n, <<"/">>))
    IN [i \in 1..Len(ds) |-> rstrip(ds[i], "/")]

ParseFiles(entries) ==
    SelectSeq(EntryNames(entries), LAMBDA n : ~endswith(n, <<"/">>))

\* `if not lines or len(lines) < 2: return`
NothingListed(lines) == Len(lines) < 2

DirLine(base_path) == [kind |-> "dir", text |-> rstrip(base_path, "/") \o <<"/">>]

FileLine(base_path, f) ==
    [kind |-> "file", text |-> Spaces(Len(rstrip(base_path, "/")) + 1) \o f]

sub_path(base_path, subdir) == rstrip(base_path, "/") \o <<"/">> \o subdir

\* the body of one call of list_all_files, up to its recursive calls; the
\* calls still to make are on the stack, the next one on top
ListDir ==
    /\ pc = "list_files"
    /\ stack # <<>>
    /\ LET base_path == Head(stack)
       IN \E ok \in BOOLEAN :
            /\ ok => DevCanList(devDirs, base_path)
            /\ log' = Append(log, Invocation("ls", base_path, <<>>, ok))
            /\ IF ~ok
               THEN IF run_mpremote_exits(ok, TRUE) /\ list_catches_SystemExit
                    THEN /\ stack' = Tail(stack)
                         /\ output' = output
                         /\ IF Tail(stack) = <<>> THEN Exit(0)
                            ELSE UNCHANGED <<pc, exitStatus>>
                    ELSE /\ Exit(1)
                         /\ UNCHANGED <<stack, output>>
               ELSE \E order \in Perms(DevChildren(DevResolve(base_path))) :
                      LET lines == LsLines(base_path, order)
                          entries == Tail(lines)
                          files == ParseFiles(entries)
                          subdirs == ParseSubdirs(entries)
                          calls == [i \in 1..Len(subdirs) |->
                                       sub_path(base_path, subdirs[i])]
                          rest == IF NothingListed(lines) THEN Tail(stack)
                                  ELSE calls \o Tail(stack)
                      IN /\ stack' = rest
                         /\ output' =
                              IF NothingListed(lines) THEN output
                              ELSE output \o <<DirLine(base_path)>> \o
                                   [i \in 1..Len(files) |->
                                       FileLine(base_path, files[i])]
                         /\ IF rest = <<>> THEN Exit(0)
                            ELSE UNCHANGED <<pc, exitStatus>>
    /\ UNCHANGED <<localVars, now, markerFile, devVars, command, force,
                   path_is_dir, uploadVars, markerBefore>>

(***************************************************************************)
(* main: one process per command.                                           *)
(***************************************************************************)
list_all_files_default == <<":","/">>

StartCommand(cmd, frc, dir) ==
    /\ pc \in {"shell", "exited"}
    /\ command' = cmd
    /\ force' = frc
    /\ path_is_dir' = dir
    /\ pc' = cmd
    /\ exitStatus' = 0
    /\ log' = <<>>
    /\ markerBefore' = markerFile
    /\ last_upload_time' = 0
    /\ files_to_upload' = {}
    /\ folders_left' = <<>>
    /\ toCopy' = {}
    /\ stack' = IF cmd = "list_files" THEN <<list_all_files_default>> ELSE <<>>
    /\ output' = <<>>
    /\ UNCHANGED <<localVars, now, markerFile, devVars>>

Main ==
    \E cmd \in Commands, frc \in BOOLEAN, dir \in BOOLEAN :
        /\ cmd # "upload_path" => (~frc /\ dir)
        /\ StartCommand(cmd, frc, dir)

(***************************************************************************)
(* The environment: the user edits a file; time passes.                     *)
(***************************************************************************)
ModifyFile ==
    /\ \E f \in localFiles :
         /\ version[f] < MaxVersion
         /\ version' = [version EXCEPT ![f] = version[f] + 1]
         /\ mtime' = [mtime EXCEPT ![f] = now]
    /\ UNCHANGED <<localFiles, now, markerFile, devVars, pc, command, force,
                   path_is_dir, exitStatus, uploadVars, markerBefore, log,
                   listVars>>

Tick ==
    /\ now < MaxTime
    /\ now' = now + 1
    /\ UNCHANGED <<localVars, markerFile, devVars, pc, command, force,
                   path_is_dir, exitStatus, uploadVars, markerBefore, log,
                   listVars>>

(***************************************************************************)
(* Specification of the whole program: any local tree, an empty board, and  *)
(* nobody editing the tree.                                                 *)
(***************************************************************************)
InitProcess ==
    /\ pc = "shell"
    /\ command = "none"
    /\ force = FALSE
    /\ path_is_dir = TRUE
    /\ exitStatus = 0
    /\ last_upload_time = 0
    /\ files_to_upload = {}
    /\ folders_left = <<>>
    /\ toCopy = {}
    /\ log = <<>>
    /\ stack = <<>>
    /\ output = <<>>

Init ==
    /\ localFiles \in SUBSET LocalUniverse
    /\ mtime \in [LocalUniverse -> InitMtimes]
    /\ \A f \in LocalUniverse \ localFiles : mtime[f] = 1
    /\ version = [f \in LocalUniverse |-> 1]
    /\ copied = [f \in LocalUniverse |-> 0]
    /\ now = 1
    /\ markerFile = <<>>
    /\ markerBefore = <<>>
    /\ devDirs = {<<>>}
    /\ devFiles = {}
    /\ InitProcess

Next ==
    \/ Main
    \/ UploadScan
    \/ UploadMkdir
    \/ UploadCp
    \/ UploadMarker
    \/ DeleteAll
    \/ SoftReset
    \/ Terminal
    \/ ListDir

Spec == Init /\ [][Next]_vars

(***************************************************************************)
(* Specification of list_files alone, over the boards of DevTrees.          *)
(***************************************************************************)
LIB == <<"l","i","b">>
X_LIB == <<"x"," ","l","i","b">>
MAIN_PY == <<"m","a","i","n",".","p","y">>

DevDirUniverse == {<<LIB>>, <<X_LIB>>, <<LIB, SUB>>}
DevFileUniverse ==
    {<<MAIN_PY>>, <<LIB, B_PY>>, <<LIB, SUB, C_PY>>, <<X_LIB, A_PY>>}

DevTrees ==
    {t \in [dirs : SUBSET DevDirUniverse, files : SUBSET DevFileUniverse] :
        /\ \A d \in t.dirs : parent(d) \in t.dirs \cup {<<>>}
        /\ \A f \in t.files : parent(f) \in t.dirs \cup {<<>>}}

InitList ==
    /\ \E t \in DevTrees :
         /\ devDirs = t.dirs \cup {<<>>}
         /\ devFiles = t.files
    /\ localFiles = {}
    /\ mtime = [f \in LocalUniverse |-> 1]
    /\ version = [f \in LocalUniverse |-> 1]
    /\ copied = [f \in LocalUniverse |-> 0]
    /\ now = 1
    /\ markerFile = <<>>
    /\ markerBefore = <<>>
    /\ InitProcess

ListFiles == StartCommand("list_files", FALSE, TRUE)

NextList ==
    \/ ListFiles
    \/ ListDir

SpecList == InitList /\ [][NextList]_vars


(***************************************************************************)
(* Specification of upload_path with the user editing files and time        *)
(* passing while it runs.                                                   *)
(***************************************************************************)
EditUniverse == {<<A_PY>>, <<OLD_MD>>, <<SUB, B_PY>>}

InitEdit ==
    /\ localFiles \in SUBSET EditUniverse
    /\ mtime \in [LocalUniverse -> InitMtimes]
    /\ \A f \in LocalUniverse \ localFiles : mtime[f] = 1
    /\ version = [f \in LocalUniverse |-> 1]
    /\ copied = [f \in LocalUniverse |-> 0]
    /\ now = 1
    /\ markerFile = <<>>
    /\ markerBefore = <<>>
    /\ devDirs = {<<>>}
    /\ devFiles = {}
    /\ InitProcess

Upload == \E frc \in BOOLEAN, dir \in BOOLEAN : StartCommand("upload_path", frc, dir)

NextEdit ==
    \/ Upload
    \/ UploadScan
    \/ UploadMkdir
    \/ UploadCp
    \/ UploadMarker
    \/ ModifyFile
    \/ Tick

SpecEdit == InitEdit /\ [][NextEdit]_vars


(***************************************************************************)
(* Properties.                                                              *)
(***************************************************************************)
MkdirIdx == {i \in 1..Len(log) : log[i].op = "mkdir"}
CpIdx == {i \in 1..Len(log) : log[i].op = "cp"}
LsIdx == {i \in 1..Len(log) : log[i].op = "ls"}

MarkerValue(m) == IF m = <<>> THEN 0 ELSE m[1]

\* the file name ends with an entry of the denylist
HasDenylistedExtension(f) ==
    \E s \in IGNORED_SUFFIXES : endswith(f[Len(f)], s)

UploadRan == command = "upload_path" /\ path_is_dir /\ pc # "upload_path"

\* C1: the scan selects exactly the regular files under the root whose
\* extension is not in the denylist and that are forced or strictly newer
\* than the marker.
C1_CandidatesAreTheNewNonDenylistedFiles ==
    [][(pc = "upload_path" /\ path_is_dir) =>
        files_to_upload' =
            {f \in RootFiles :
                /\ ~HasDenylistedExtension(f)
                /\ (force \/ mtime[f] > MarkerValue(markerFile))}]_vars

\* C2: once the copies start, the mkdir requests of the run are exactly the
\* distinct parent directories of the candidates below the root, each
\* requested once, and all of them precede the copies.
C2_MkdirExactlyTheParentDirectories ==
    (UploadRan /\ pc # "upload_mkdir" /\ files_to_upload # {}) =>
        /\ {log[i].arg : i \in MkdirIdx} =
              {esp_path(JoinPosix(parent(f))) :
                  f \in {g \in files_to_upload : parent(g) # <<>>}}
        /\ \A i, j \in MkdirIdx : i # j => log[i].arg # log[j].arg
        /\ \A i \in MkdirIdx, j \in CpIdx : i < j

\* C3: the marker is rewritten only after every copy of the run succeeded;
\* a missing root or a failed copy ends the process with status 1, is the
\* last thing the process does, and leaves the marker as it was.
C3_MarkerRewrittenOnlyAfterAllCopies ==
    command = "upload_path" =>
        /\ markerFile # markerBefore =>
              /\ pc = "exited" /\ exitStatus = 0
              /\ \A i \in CpIdx : log[i].ok
              /\ \A f \in files_to_upload : \E i \in CpIdx : log[i].src = f
        /\ \A i \in CpIdx : ~log[i].ok =>
              /\ pc = "exited" /\ exitStatus = 1
              /\ i = Len(log)
              /\ markerFile = markerBefore
        /\ (~path_is_dir /\ pc = "exited") =>
              /\ exitStatus = 1
              /\ log = <<>>
              /\ markerFile = markerBefore

C3_Witness ==
    /\ command = "upload_path" /\ pc = "exited" /\ exitStatus = 1
    /\ markerBefore # <<>> /\ markerFile = markerBefore
    /\ \E i, j \in CpIdx : i < j /\ log[i].ok /\ ~log[j].ok

\* C5: a run whose candidate set is empty invokes nothing, leaves the marker
\* file as it was and ends with status 0.
C5_NothingToDoTouchesNothing ==
    (UploadRan /\ files_to_upload = {}) =>
        /\ pc = "exited" /\ exitStatus = 0
        /\ log = <<>>
        /\ markerFile = markerBefore

C5_Witness ==
    /\ UploadRan /\ files_to_upload = {} /\ pc = "exited"
    /\ markerFile # <<>>
    /\ \E f \in localFiles : ~HasDenylistedExtension(f)

\* C9: before a copy is issued, mkdir has been requested for every proper
\* ancestor directory of its target below the root, parents before children.
Ancestor(f, k) == esp_path(JoinPosix(SubSeq(f, 1, k)))

C9_AncestorsCreatedBeforeCopy ==
    \A j \in CpIdx :
        \A k \in 1..(Len(log[j].src) - 1) :
            \E i \in MkdirIdx :
                /\ i < j
                /\ log[i].arg = Ancestor(log[j].src, k)
                /\ k > 1 => \E h \in MkdirIdx :
                                /\ h < i
                                /\ log[h].arg = Ancestor(log[j].src, k - 1)


UploadCompletes == pc = "upload_marker" /\ pc' = "exited"

\* C4 as stated: when a run with candidates completes, the new marker is
\* greater than the old one and at least the modification time of every
\* uploaded file.
C4_MarkerCoversUploadedFiles ==
    [][UploadCompletes =>
        /\ MarkerValue(markerFile') > MarkerValue(markerBefore)
        /\ \A f \in files_to_upload :
              MarkerValue(markerFile') >= mtime[f]]_vars

\* C4 as amended: when a run with candidates completes, the new marker is
\* the clock reading of that moment; it is greater than the old marker, at
\* least the modification time of every uploaded file that is not stamped
\* in the future, and less than that of an uploaded file that is.
C4_MarkerIsTheClockReading ==
    [][UploadCompletes =>
        /\ markerFile' = <<now>>
        /\ MarkerValue(markerFile') > MarkerValue(markerBefore)
        /\ \A f \in files_to_upload :
              /\ mtime[f] <= now => MarkerValue(markerFile') >= mtime[f]
              /\ mtime[f] > now => MarkerValue(markerFile') < mtime[f]]_vars

C4_Witness ==
    /\ command = "upload_path" /\ pc = "exited" /\ exitStatus = 0
    /\ files_to_upload # {}
    /\ markerBefore # <<>>
    /\ markerFile # markerBefore
    /\ \E f \in files_to_upload : mtime[f] > MarkerValue(markerFile)
    /\ \E f \in files_to_upload : mtime[f] < MarkerValue(markerFile)

FatalOps == {"rm", "cp", "reset", "repl"}

\* C6 as stated: the exit status is 0 exactly if no invocation failed
\* (stated of the processes whose root directory, if any, exists).
C6_StatusZeroIffNoInvocationFailed ==
    (pc = "exited" /\ path_is_dir) =>
        (exitStatus = 0 <=> \A i \in 1..Len(log) : log[i].ok)

\* C6 as amended: the exit status is non-zero exactly if a remove, copy,
\* reset or repl invocation failed or the upload root is missing; a failed
\* mkdir or ls invocation leaves it 0.
C6_StatusNonZeroIffFatalFailure ==
    pc = "exited" =>
        (exitStatus # 0 <=>
            \/ \E i \in 1..Len(log) : ~log[i].ok /\ log[i].op \in FatalOps
            \/ command = "upload_path" /\ ~path_is_dir)

C6_Witness ==
    /\ pc = "exited" /\ exitStatus = 0
    /\ command = "upload_path"
    /\ \E i \in MkdirIdx : ~log[i].ok
    /\ \E i \in CpIdx : log[i].ok

\* C7: within one listing, no directory path is requested twice.
C7_EachPathListedAtMostOnce ==
    \A i, j \in LsIdx : i # j => log[i].arg # log[j].arg

\* C8: every directory whose listing request succeeded has its path printed
\* exactly once, its files right after it.
C8_EveryListedDirectoryIsPrinted ==
    \A i \in LsIdx : log[i].ok =>
        /\ Cardinality({k \in 1..Len(output) :
                           output[k] = DirLine(log[i].arg)}) = 1
        /\ \A k \in 1..Len(output) : output[k] = DirLine(log[i].arg) =>
              LET fs == {r \in devFiles : parent(r) = DevResolve(log[i].arg)}
                  n == Cardinality(fs)
              IN /\ k + n <= Len(output)
                 /\ {output[k + m] : m \in 1..n} =
                       {FileLine(log[i].arg, f[Len(f)]) : f \in fs}

\* C10: when a run completes with status 0, every file that is not
\* denylisted either is on the board in its current version or is newer
\* than the marker.
C10_NoModificationLost ==
    [][(pc # "exited" /\ pc' = "exited" /\ command = "upload_path"
            /\ exitStatus' = 0) =>
        \A f \in localFiles :
            (~HasDenylistedExtension(f)
                /\ suffix(f[Len(f)]) \notin IGNORED_SUFFIXES) =>
                \/ copied'[f] = version'[f]
                \/ mtime'[f] > MarkerValue(markerFile')]_vars

====
